---------------------------- MODULE Spec2Model ----------------------------
(***************************************************************************)
(* A model of the Duration engine of the `time` crate (src/src/duration.rs)*)
(* as a state machine: a caller holds one Duration `d`, builds it with the *)
(* constructors and feeds it to the operators; `last` records the last     *)
(* call, its arguments and what it returned.                               *)
(*                                                                         *)
(* Integer widths are scaled down so that the whole input space can be     *)
(* enumerated.  The scaling keeps the relations the code relies on:        *)
(*   i64   : SecBits bits, two's complement                                *)
(*   u64   : SecBits bits, unsigned                                        *)
(*   10^9  : NanosPerSec = Base^3 (1000 is scaled to Base)                 *)
(*   i32   : holds two whole seconds of nanoseconds and a bit more         *)
(*           (i32::MAX = 2*10^9 + 147_483_647)                             *)
(*   i128  : wide enough for 2^63 * 10^9 * 2^32 * 4 (which is < 2^127)     *)
(* The counts handed to the unit constructors are i64 as well; there the   *)
(* i64 is scaled to hold MaxCount days of seconds, so that the products     *)
(* with the unit lengths (true size) both fit and overflow.                 *)
(***************************************************************************)
EXTENDS Integers, Sequences, FiniteSets, TLC

VARIABLES d, last, cursor, items, text, ret

\* the offset codec's part of the state: the shared parse cursor, the
\* accumulator of parsed items, the formatter's output and the last codec call
codec == <<cursor, items, text, ret>>

vars == <<d, last, cursor, items, text, ret>>

---------------------------------------------------------------------------
(* Bounds of the model. *)

\* number of bits of the scaled i64 / u64
SecBits == 3

\* the scaled 1000: milliseconds per second, microseconds per millisecond,
\* nanoseconds per microsecond
Base == 2

\* the largest count of days whose seconds fit the i64 of a unit count
MaxCount == 20

---------------------------------------------------------------------------
(* Machine integers. *)

Pow2(n) == IF n = 0 THEN 1 ELSE IF n = 1 THEN 2 ELSE IF n = 2 THEN 4
           ELSE IF n = 3 THEN 8 ELSE IF n = 4 THEN 16 ELSE IF n = 5 THEN 32
           ELSE IF n = 6 THEN 64 ELSE 128

\* the literal 1_000_000_000
NanosPerSec == Base * Base * Base

I64Max == Pow2(SecBits - 1) - 1
I64Min == -Pow2(SecBits - 1)
U64Max == Pow2(SecBits) - 1
I64 == I64Min..I64Max
U64 == 0..U64Max

\* i32::MAX = 2 * 10^9 + 147_483_647 and i32::MIN = -i32::MAX - 1
I32Max == 2 * NanosPerSec + NanosPerSec \div 7
I32Min == -I32Max - 1
U32Max == 2 * I32Max + 1
I32 == I32Min..I32Max

\* i128::MAX = 2^127 - 1 > 2^63 * 10^9 * 2^32 * 4
I128Max == (I64Max + 1) * NanosPerSec * (U32Max + 1) * 4 - 1
I128Min == -I128Max - 1

AbsInt(a) == IF a < 0 THEN -a ELSE a

\* Rust's `/` on integers truncates toward zero (b # 0)
TruncDiv(a, b) ==
    LET q == AbsInt(a) \div AbsInt(b)
    IN  IF (a < 0) # (b < 0) THEN -q ELSE q

\* Rust's `%` on integers: the remainder keeps the sign of the dividend
TruncRem(a, b) == a - b * TruncDiv(a, b)

\* `x as i64`: two's complement truncation
as_i64(x) == ((x - I64Min) % (U64Max + 1)) + I64Min

\* `x as i32`
as_i32(x) == ((x - I32Min) % (U32Max + 1)) + I32Min

\* `x as i128` of a u128
as_i128(x) == IF x > I128Max THEN x - 2 * (I128Max + 1) ELSE x

Clamp(x, lo, hi) == IF x > hi THEN hi ELSE IF x < lo THEN lo ELSE x

\* i128::saturating_add / saturating_sub / saturating_mul
saturating_add(a, b) == Clamp(a + b, I128Min, I128Max)
saturating_sub(a, b) == Clamp(a - b, I128Min, I128Max)
saturating_mul(a, b) == Clamp(a * b, I128Min, I128Max)

\* i64::checked_add: the sum, or None
checked_add(a, b) ==
    IF a + b > I64Max \/ a + b < I64Min
    THEN [some |-> FALSE, value |-> 0]
    ELSE [some |-> TRUE, value |-> a + b]

---------------------------------------------------------------------------
(* struct Duration and its constructors and accessors. *)

Dur(s, n) == [seconds |-> s, nanoseconds |-> n]

max_value == Dur(I64Max, NanosPerSec - 1)

min_value_negated_max == Dur(-I64Max, -(NanosPerSec - 1))

min_value == Dur(I64Min, -(NanosPerSec - 1))

seconds(s) == Dur(s, 0)

zero == seconds(0)

new_trunc(s, n) ==
    LET sum == checked_add(s, TruncDiv(n, NanosPerSec))
    IN  IF sum.some THEN Dur(sum.value, n)
        ELSE IF s > 0 THEN max_value ELSE min_value

new(s, n) ==
    LET sum == checked_add(s, TruncDiv(n, NanosPerSec))
    IN  IF sum.some THEN Dur(sum.value, TruncRem(n, NanosPerSec))
        ELSE IF s > 0 THEN max_value ELSE min_value

whole_seconds(self) == self.seconds

whole_nanoseconds(self) == self.seconds * NanosPerSec + self.nanoseconds

\* the unit lengths; seconds per minute, hour, day and week keep their true
\* size, the sub-second units follow the scaled 1000
SECONDS_PER_MINUTE == 60
SECONDS_PER_HOUR == 60 * SECONDS_PER_MINUTE
SECONDS_PER_DAY == 24 * SECONDS_PER_HOUR
SECONDS_PER_WEEK == 7 * SECONDS_PER_DAY

\* the literals 1_000 and 1_000_000
Thousand == Base
Million == Base * Base

whole_weeks(self) == TruncDiv(whole_seconds(self), SECONDS_PER_WEEK)
whole_days(self) == TruncDiv(whole_seconds(self), SECONDS_PER_DAY)
whole_hours(self) == TruncDiv(whole_seconds(self), SECONDS_PER_HOUR)
whole_minutes(self) == TruncDiv(whole_seconds(self), SECONDS_PER_MINUTE)

\* self.seconds as i128 * 1_000 + self.nanoseconds as i128 / 1_000_000
whole_milliseconds(self) ==
    self.seconds * Thousand + TruncDiv(self.nanoseconds, Million)

\* self.seconds as i128 * 1_000_000 + self.nanoseconds as i128 / 1_000
whole_microseconds(self) ==
    self.seconds * Million + TruncDiv(self.nanoseconds, Thousand)

\* the i64 of a unit count
CountMax == MaxCount * SECONDS_PER_DAY
CountMin == -CountMax - 1
as_count(x) == ((x - CountMin) % (2 * (CountMax + 1))) + CountMin

\* i64 `*`, not guarded: an overflow panics in a build with overflow checks
\* and wraps in one without
mul_i64(a, b, overflow_checks) ==
    IF a * b > CountMax \/ a * b < CountMin
    THEN [panic |-> overflow_checks, value |-> as_count(a * b)]
    ELSE [panic |-> FALSE, value |-> a * b]

\* Self::seconds(count * SECONDS_PER_<UNIT>)
seconds_times(count, scale, overflow_checks) ==
    LET product == mul_i64(count, scale, overflow_checks)
    IN  [panic |-> product.panic, value |-> seconds(product.value)]

\* Duration::weeks with the length of a day
weeks_as_days(c, overflow_checks) ==
    seconds_times(c, SECONDS_PER_DAY, overflow_checks)

weeks(c, overflow_checks) == seconds_times(c, SECONDS_PER_WEEK, overflow_checks)
days(c, overflow_checks) == seconds_times(c, SECONDS_PER_DAY, overflow_checks)
hours(c, overflow_checks) == seconds_times(c, SECONDS_PER_HOUR, overflow_checks)
minutes(c, overflow_checks) ==
    seconds_times(c, SECONDS_PER_MINUTE, overflow_checks)

\* seconds: ms / 1_000, nanoseconds: ((ms % 1_000) * 1_000_000) as i32
milliseconds(c) ==
    Dur(TruncDiv(c, Thousand), as_i32(TruncRem(c, Thousand) * Million))

\* seconds: us / 1_000_000, nanoseconds: ((us % 1_000_000) * 1_000) as i32
microseconds(c) ==
    Dur(TruncDiv(c, Million), as_i32(TruncRem(c, Million) * Thousand))

is_zero(self) == (self.seconds = 0) /\ (self.nanoseconds = 0)
is_negative(self) == (self.seconds < 0) \/ (self.nanoseconds < 0)
is_positive(self) == (self.seconds > 0) \/ (self.nanoseconds > 0)

nanoseconds_i128_wrap(nanoseconds) ==
    Dur(as_i64(TruncDiv(nanoseconds, NanosPerSec)),
        as_i32(TruncRem(nanoseconds, NanosPerSec)))

\* a normalisation that rounds the seconds down instead of toward zero
nanoseconds_i128_floor(nanoseconds) ==
    IF nanoseconds > whole_nanoseconds(max_value) THEN max_value
    ELSE IF nanoseconds < whole_nanoseconds(min_value) THEN min_value
    ELSE Dur(nanoseconds \div NanosPerSec, nanoseconds % NanosPerSec)

nanoseconds_i128(nanoseconds) ==
    IF nanoseconds > whole_nanoseconds(max_value) THEN max_value
    ELSE IF nanoseconds < whole_nanoseconds(min_value) THEN min_value
    ELSE Dur(as_i64(TruncDiv(nanoseconds, NanosPerSec)),
             as_i32(TruncRem(nanoseconds, NanosPerSec)))

---------------------------------------------------------------------------
(* core::time::Duration, the foreign non-negative duration. *)

Std(secs, nanos) == [secs |-> secs, nanos |-> nanos]

\* StdDuration::new: carries whole seconds out of nanos and panics when the
\* seconds overflow u64
StdDuration_new(secs, nanos) ==
    LET carried == secs + nanos \div NanosPerSec
    IN  [panic |-> carried > U64Max,
         value |-> Std(carried % (U64Max + 1), nanos % NanosPerSec)]

\* StdDuration::as_nanos, a u128
as_nanos(std) == std.secs * NanosPerSec + std.nanos

\* seconds: ns / 1_000_000_000, nanoseconds: (ns % 1_000_000_000) as i32
nanoseconds(c) ==
    Dur(TruncDiv(c, NanosPerSec), as_i32(TruncRem(c, NanosPerSec)))

---------------------------------------------------------------------------
(* Conversions between Duration and the foreign duration. *)

try_from_std_wrap(original) ==
    [ok |-> TRUE, value |-> new(as_i64(original.secs), original.nanos)]

\* impl TryFrom<StdDuration> for Duration
\* a conversion that keeps the whole seconds only
try_from_std_whole_seconds(original) ==
    IF original.secs > I64Max
    THEN [ok |-> FALSE, value |-> zero]
    ELSE [ok |-> TRUE, value |-> new(original.secs, 0)]

try_from_std(original) ==
    IF original.secs > I64Max THEN [ok |-> FALSE, value |-> zero]
    ELSE IF original.nanos > I32Max THEN [ok |-> FALSE, value |-> zero]
    ELSE [ok |-> TRUE, value |-> new(original.secs, original.nanos)]

try_into_std_abs(duration) ==
    [ok |-> TRUE, panic |-> FALSE,
     value |-> Std(AbsInt(duration.seconds), AbsInt(duration.nanoseconds))]

\* impl TryFrom<Duration> for StdDuration
try_into_std(duration) ==
    IF duration.seconds < 0 THEN [ok |-> FALSE, panic |-> FALSE, value |-> Std(0, 0)]
    ELSE IF duration.nanoseconds < 0
    THEN [ok |-> FALSE, panic |-> FALSE, value |-> Std(0, 0)]
    ELSE LET r == StdDuration_new(duration.seconds, duration.nanoseconds)
         IN  [ok |-> TRUE, panic |-> r.panic, value |-> r.value]

---------------------------------------------------------------------------
(* Operators. *)

\* impl Add for Duration
add(self, rhs) ==
    nanoseconds_i128(
        saturating_add(whole_nanoseconds(self), whole_nanoseconds(rhs)))

\* impl Add<StdDuration> for Duration
add_std(self, std_duration) ==
    nanoseconds_i128(
        saturating_add(whole_nanoseconds(self), as_i128(as_nanos(std_duration))))

\* impl Add<Duration> for StdDuration
std_add(self, rhs) == add_std(rhs, self)

sub_as_add(self, rhs) ==
    nanoseconds_i128(
        saturating_add(whole_nanoseconds(self), whole_nanoseconds(rhs)))

\* impl Sub for Duration
sub(self, rhs) ==
    nanoseconds_i128(
        saturating_sub(whole_nanoseconds(self), whole_nanoseconds(rhs)))

\* impl Sub<StdDuration> for Duration
sub_std(self, rhs) ==
    nanoseconds_i128(
        saturating_sub(whole_nanoseconds(self), as_i128(as_nanos(rhs))))

\* impl Sub<Duration> for StdDuration
std_sub(self, rhs) ==
    nanoseconds_i128(
        saturating_sub(as_i128(as_nanos(self)), whole_nanoseconds(rhs)))

\* impl Mul<$type> for Duration, `rhs as i128`
mul_int(self, rhs) ==
    nanoseconds_i128(saturating_mul(whole_nanoseconds(self), rhs))

\* impl Mul<Duration> for $type
int_mul(self, rhs) == mul_int(rhs, self)

\* impl Neg for Duration
neg(self) == int_mul(-1, self)

div_int_floor(self, rhs) ==
    [panic |-> rhs = 0,
     value |-> IF rhs = 0 THEN self
               ELSE nanoseconds_i128(
                        (whole_nanoseconds(self) * (IF rhs < 0 THEN -1 ELSE 1))
                        \div AbsInt(rhs))]

\* a division that saturates on a zero divisor
div_int_saturating(self, rhs) ==
    LET n == whole_nanoseconds(self)
    IN  IF rhs = 0
        THEN [panic |-> FALSE,
              value |-> IF n < 0 THEN min_value ELSE max_value]
        ELSE [panic |-> FALSE, value |-> nanoseconds_i128(TruncDiv(n, rhs))]

\* impl Div<$type> for Duration: i128 `/` panics on a zero divisor and on
\* i128::MIN / -1
div_int(self, rhs) ==
    LET n == whole_nanoseconds(self)
    IN  IF rhs = 0 \/ (n = I128Min /\ rhs = -1)
        THEN [panic |-> TRUE, value |-> self]
        ELSE [panic |-> FALSE, value |-> nanoseconds_i128(TruncDiv(n, rhs))]

\* i64::abs and i32::abs: the absolute value of the minimum overflows, which
\* panics in a build with overflow checks and wraps in one without
int_abs(x, min, overflow_checks) ==
    IF x = min THEN [panic |-> overflow_checks, value |-> min]
    ELSE [panic |-> FALSE, value |-> AbsInt(x)]

\* Duration::abs
abs(self, overflow_checks) ==
    LET s == int_abs(self.seconds, I64Min, overflow_checks)
        n == int_abs(self.nanoseconds, I32Min, overflow_checks)
    IN  [panic |-> s.panic \/ n.panic,
         value |-> Dur(s.value, n.value)]

\* Ord for the integers
int_cmp(a, b) == IF a < b THEN "Less" ELSE IF a > b THEN "Greater" ELSE "Equal"

\* impl Ord for Duration
cmp(self, rhs) ==
    LET c == int_cmp(self.seconds, rhs.seconds)
    IN  IF c # "Equal" THEN c ELSE int_cmp(self.nanoseconds, rhs.nanoseconds)

\* #[derive(PartialEq)] on Duration
eq(self, rhs) ==
    self.seconds = rhs.seconds /\ self.nanoseconds = rhs.nanoseconds

\* a foreign in-place subtraction that stops at zero instead of panicking
std_sub_assign_saturating(self, rhs) ==
    LET r == try_into_std(std_sub(self, rhs))
    IN  [panic |-> FALSE, value |-> IF r.ok THEN r.value ELSE Std(0, 0)]

\* impl SubAssign<Duration> for StdDuration:
\* *self = (*self - rhs).try_into().expect(..); the panic leaves *self as it was
std_sub_assign(self, rhs) ==
    LET r == try_into_std(std_sub(self, rhs))
    IN  [panic |-> ~r.ok \/ r.panic,
         value |-> IF r.ok /\ ~r.panic THEN r.value ELSE self]

\* impl PartialEq<StdDuration> for Duration: Ok(*self) == Self::try_from(*rhs)
eq_std(self, rhs) ==
    LET r == try_from_std(rhs)
    IN  r.ok /\ eq(self, r.value)

\* impl PartialEq<Duration> for StdDuration: rhs == self
std_eq(self, rhs) == eq_std(rhs, self)

\* a comparison with the foreign type that looks at the seconds only
partial_cmp_std_seconds(self, rhs) ==
    IF rhs.secs > I64Max
    THEN "Greater"
    ELSE int_cmp(self.seconds, as_i64(rhs.secs))

\* impl PartialOrd<StdDuration> for Duration; every result is Some(..)
partial_cmp_std(self, rhs) ==
    IF rhs.secs > I64Max
    THEN "Greater"
    ELSE LET c == int_cmp(self.seconds, as_i64(rhs.secs))
         IN  IF c # "Equal"
             THEN c
             ELSE int_cmp(self.nanoseconds, as_i32(rhs.nanos))

\* Ordering::reverse
reverse(o) ==
    IF o = "Less" THEN "Greater" ELSE IF o = "Greater" THEN "Less" ELSE "Equal"

\* impl PartialOrd<Duration> for StdDuration:
\* rhs.partial_cmp(self).map(Ordering::reverse)
std_partial_cmp(self, rhs) == reverse(partial_cmp_std(rhs, self))

---------------------------------------------------------------------------
(* The UTC offset codec (src/src/format/offset.rs).  Its values, at most   *)
(* 99 * 60 + 99 minutes, are far inside every integer width, so they keep  *)
(* their true size.  Text is a sequence of one-character strings.          *)

Digits == <<"0", "1", "2", "3", "4", "5", "6", "7", "8", "9">>

\* char::is_ascii_digit
is_ascii_digit(c) == \E i \in 1..Len(Digits) : Digits[i] = c

\* the value of an ASCII digit
digit_value(c) == (CHOOSE i \in 1..Len(Digits) : Digits[i] = c) - 1

\* str::parse of a run of ASCII digits
RECURSIVE parse_digits(_)
parse_digits(str) ==
    IF Len(str) = 0
    THEN 0
    ELSE 10 * parse_digits(SubSeq(str, 1, Len(str) - 1))
             + digit_value(str[Len(str)])

\* &s[n..]
Skip(str, n) == SubSeq(str, n + 1, Len(str))

\* str::starts_with
starts_with(str, pattern) ==
    /\ Len(str) >= Len(pattern)
    /\ SubSeq(str, 1, Len(pattern)) = pattern

\* [("+", 1), ("-", -1)]
Signs == << << <<"+">>, 1 >>, << <<"-">>, -1 >> >>

\* try_consume_first_match: the value of the first pattern the cursor starts
\* with, the cursor advanced past it; no match leaves the cursor unchanged
try_consume_first_match(str, opts) ==
    IF \E i \in 1..Len(opts) : starts_with(str, opts[i][1])
    THEN LET i == CHOOSE i \in 1..Len(opts) :
                      /\ starts_with(str, opts[i][1])
                      /\ \A j \in 1..(i - 1) : ~starts_with(str, opts[j][1])
         IN  [some |-> TRUE, value |-> opts[i][2],
              rest |-> Skip(str, Len(opts[i][1]))]
    ELSE [some |-> FALSE, value |-> 0, rest |-> str]

\* try_consume_exact_digits with Padding::Zero: exactly num_digits ASCII
\* digits, the cursor advanced past them; a mismatch leaves it unchanged
try_consume_exact_digits(str, num_digits) ==
    IF /\ Len(str) >= num_digits
       /\ \A i \in 1..num_digits : is_ascii_digit(str[i])
    THEN [some |-> TRUE, value |-> parse_digits(SubSeq(str, 1, num_digits)),
          rest |-> Skip(str, num_digits)]
    ELSE [some |-> FALSE, value |-> 0, rest |-> str]

\* i16
I16Max == 32767
I16Min == -I16Max - 1
as_i16(x) == ((x - I16Min) % (2 * (I16Max + 1))) + I16Min

\* the largest count of minutes an offset holds: one minute less than a day
MaxOffsetMinutes == 1439

\* a UtcOffset wraps a signed count of minutes
Offset(m) == [minutes |-> m]

\* UtcOffset::minutes: the fallible constructor
UtcOffset_minutes(m) ==
    IF m < -MaxOffsetMinutes \/ m > MaxOffsetMinutes
    THEN [ok |-> FALSE, value |-> Offset(0)]
    ELSE [ok |-> TRUE, value |-> Offset(m)]

\* every UtcOffset the constructor accepts
UtcOffsets == {Offset(m) : m \in (-MaxOffsetMinutes)..MaxOffsetMinutes}

\* UtcOffset::as_duration: Duration::minutes of the count, which is far from
\* overflowing
as_duration(offset) == minutes(offset.minutes, TRUE).value

\* Display of an integer
RECURSIVE decimal(_)
decimal(n) ==
    IF n < 10
    THEN <<Digits[n + 1]>>
    ELSE decimal(n \div 10) \o <<Digits[(n % 10) + 1]>>

\* "{:02}" of an integer: the sign counts in the width
fmt_02(n) ==
    LET shown == IF n < 0 THEN <<"-">> \o decimal(-n) ELSE decimal(n)
    IN  IF Len(shown) < 2
        THEN <<"0">> \o shown
        ELSE shown

\* fmt_z without the `.abs()` calls
fmt_z_signed(offset) ==
    LET offset_ == as_duration(offset)
    IN  <<IF is_negative(offset_) THEN "-" ELSE "+">>
            \o fmt_02(whole_hours(offset_))
            \o fmt_02(whole_minutes(offset_) - 60 * whole_hours(offset_))

\* fmt_z that takes the sign from the whole hours
fmt_z_hour_sign(offset) ==
    LET offset_ == as_duration(offset)
    IN  <<IF whole_hours(offset_) < 0 THEN "-" ELSE "+">>
            \o fmt_02(AbsInt(whole_hours(offset_)))
            \o fmt_02(AbsInt(whole_minutes(offset_)
                                 - 60 * whole_hours(offset_)))

\* fmt_z: what it writes to the formatter
fmt_z(offset) ==
    LET offset_ == as_duration(offset)
    IN  <<IF is_negative(offset_) THEN "-" ELSE "+">>
            \o fmt_02(AbsInt(whole_hours(offset_)))
            \o fmt_02(AbsInt(whole_minutes(offset_)
                                 - 60 * whole_hours(offset_)))

\* Option<UtcOffset>
None == [some |-> FALSE, value |-> Offset(0)]
Some(offset) == [some |-> TRUE, value |-> offset]

\* what parse_z returns and leaves behind
ParseErr(kind, items_, rest) ==
    [result |-> kind, items |-> items_, s |-> rest, overflow |-> FALSE]

\* parse_z that takes a missing sign for '+'
parse_z_unsigned(items_, s) ==
    LET sign == try_consume_first_match(s, Signs)
        hours_ == try_consume_exact_digits(sign.rest, 2)
        minutes_ == try_consume_exact_digits(hours_.rest, 2)
        total == (IF sign.some THEN sign.value ELSE 1)
                     * (hours_.value * 60 + minutes_.value)
        offset == UtcOffset_minutes(total)
    IN  IF ~hours_.some THEN ParseErr("InvalidOffset", items_, hours_.rest)
        ELSE IF ~minutes_.some
        THEN ParseErr("InvalidOffset", items_, minutes_.rest)
        ELSE IF ~offset.ok
        THEN ParseErr("InvalidOffset", items_, minutes_.rest)
        ELSE [result |-> "Ok", items |-> [items_ EXCEPT !.offset = Some(offset.value)],
              s |-> minutes_.rest, overflow |-> FALSE]

\* parse_z that reads the two fields as MM HH
parse_z_swapped(items_, s) ==
    LET sign == try_consume_first_match(s, Signs)
        hours_ == try_consume_exact_digits(sign.rest, 2)
        minutes_ == try_consume_exact_digits(hours_.rest, 2)
        total == sign.value * (minutes_.value * 60 + hours_.value)
        offset == UtcOffset_minutes(total)
    IN  IF ~sign.some THEN ParseErr("InvalidOffset", items_, sign.rest)
        ELSE IF ~hours_.some THEN ParseErr("InvalidOffset", items_, hours_.rest)
        ELSE IF ~minutes_.some
        THEN ParseErr("InvalidOffset", items_, minutes_.rest)
        ELSE IF ~offset.ok
        THEN ParseErr("InvalidOffset", items_, minutes_.rest)
        ELSE [result |-> "Ok", items |-> [items_ EXCEPT !.offset = Some(offset.value)],
              s |-> minutes_.rest, overflow |-> FALSE]

\* parse_z that puts the cursor back where it was when it fails
parse_z_rollback(items_, s) ==
    LET sign == try_consume_first_match(s, Signs)
        hours_ == try_consume_exact_digits(sign.rest, 2)
        minutes_ == try_consume_exact_digits(hours_.rest, 2)
        total == sign.value * (hours_.value * 60 + minutes_.value)
        offset == UtcOffset_minutes(total)
    IN  IF ~sign.some \/ ~hours_.some \/ ~minutes_.some \/ ~offset.ok
        THEN ParseErr("InvalidOffset", items_, s)
        ELSE [result |-> "Ok", items |-> [items_ EXCEPT !.offset = Some(offset.value)],
              s |-> minutes_.rest, overflow |-> FALSE]

\* parse_z: each `?` returns early, with the cursor where the last successful
\* step left it; the i16 arithmetic wraps or panics when it overflows
parse_z(items_, s) ==
    LET sign == try_consume_first_match(s, Signs)
        hours_ == try_consume_exact_digits(sign.rest, 2)
        minutes_ == try_consume_exact_digits(hours_.rest, 2)
        product == hours_.value * 60
        sum == as_i16(product) + minutes_.value
        total == sign.value * as_i16(sum)
        overflow == \/ product # as_i16(product)
                    \/ sum # as_i16(sum)
                    \/ total # as_i16(total)
        offset == UtcOffset_minutes(as_i16(total))
    IN  IF ~sign.some THEN ParseErr("InvalidOffset", items_, sign.rest)
        ELSE IF ~hours_.some THEN ParseErr("InvalidOffset", items_, hours_.rest)
        ELSE IF ~minutes_.some
        THEN ParseErr("InvalidOffset", items_, minutes_.rest)
        ELSE IF ~offset.ok
        THEN [result |-> "InvalidOffset", items |-> items_,
              s |-> minutes_.rest, overflow |-> overflow]
        ELSE [result |-> "Ok", items |-> [items_ EXCEPT !.offset = Some(offset.value)],
              s |-> minutes_.rest, overflow |-> overflow]

---------------------------------------------------------------------------
(* The state machine. *)

\* every Duration the public constructor `new` returns
Durations == {new(s, n) : s \in I64, n \in I32}

\* every foreign duration: u64 seconds and 0 <= nanos < 10^9
StdDurations == {Std(secs, nanos) : secs \in U64, nanos \in 0..(NanosPerSec - 1)}

\* the integer operands: i8, i16, i32, u8, u16 and u32 are all widened with
\* `as i128`, so the set is the union of their ranges
IntOperands == I32Min..U32Max

\* no call is being observed: the caller holds d
NoCall ==
    [op |-> "none", x |-> zero, y |-> zero, g |-> Std(0, 0), s |-> 0, n |-> 0,
     k |-> 0, out |-> zero, std |-> Std(0, 0), ok |-> TRUE, ord |-> "Equal",
     panic |-> FALSE]

Idle == last.op = "none"

\* no codec call is being observed
NoRet ==
    [op |-> "none", result |-> "none", x |-> <<>>, prev |-> [offset |-> None],
     offset |-> Offset(0), overflow |-> FALSE]

Init ==
    /\ d = zero
    /\ last = NoCall
    /\ cursor = <<>>
    /\ items = [offset |-> None]
    /\ text = <<>>
    /\ ret = NoRet

\* the caller goes on with the value it holds
Continue ==
    /\ ~Idle
    /\ last' = NoCall
    /\ UNCHANGED d
    /\ UNCHANGED codec

\* d = Duration::new(s, n)
New ==
    /\ Idle
    /\ \E s \in I64, n \in I32 :
        /\ d' = new(s, n)
        /\ last' = [NoCall EXCEPT !.op = "new", !.s = s, !.n = n,
                                  !.out = d']
    /\ UNCHANGED codec

\* d = Duration::seconds(s)
Seconds ==
    /\ Idle
    /\ \E s \in I64 :
        /\ d' = seconds(s)
        /\ last' = [NoCall EXCEPT !.op = "seconds", !.s = s, !.out = d']
    /\ UNCHANGED codec

\* d += y
Add ==
    /\ Idle
    /\ \E y \in Durations :
        /\ d' = add(d, y)
        /\ last' = [NoCall EXCEPT !.op = "add", !.x = d, !.y = y,
                                  !.out = d']
    /\ UNCHANGED codec

\* d -= y; right after d += y the caller may take the same y back
Sub ==
    /\ \/ Idle
       \/ last.op = "add"
    /\ \E y \in IF Idle THEN Durations ELSE {last.y} :
        /\ d' = sub(d, y)
        /\ last' = [NoCall EXCEPT !.op = "sub", !.x = d, !.y = y,
                                  !.out = d']
    /\ UNCHANGED codec

\* d += g, g a foreign duration
AddStd ==
    /\ Idle
    /\ \E g \in StdDurations :
        /\ d' = add_std(d, g)
        /\ last' = [NoCall EXCEPT !.op = "add_std", !.x = d, !.g = g,
                                  !.out = d']
    /\ UNCHANGED codec

\* d -= g
SubStd ==
    /\ Idle
    /\ \E g \in StdDurations :
        /\ d' = sub_std(d, g)
        /\ last' = [NoCall EXCEPT !.op = "sub_std", !.x = d, !.g = g,
                                  !.out = d']
    /\ UNCHANGED codec

\* d = g + d
StdAdd ==
    /\ Idle
    /\ \E g \in StdDurations :
        /\ d' = std_add(g, d)
        /\ last' = [NoCall EXCEPT !.op = "std_add", !.x = d, !.g = g,
                                  !.out = d']
    /\ UNCHANGED codec

\* d = g - d
StdSub ==
    /\ Idle
    /\ \E g \in StdDurations :
        /\ d' = std_sub(g, d)
        /\ last' = [NoCall EXCEPT !.op = "std_sub", !.x = d, !.g = g,
                                  !.out = d']
    /\ UNCHANGED codec

\* d = -d
Neg ==
    /\ Idle
    /\ d' = neg(d)
    /\ last' = [NoCall EXCEPT !.op = "neg", !.x = d, !.out = d']
    /\ UNCHANGED codec

\* d = d.abs(), in a build with or without overflow checks; a panic leaves
\* nothing assigned
Abs ==
    /\ Idle
    /\ \E overflow_checks \in BOOLEAN :
        LET r == abs(d, overflow_checks)
        IN  /\ d' = IF r.panic THEN d ELSE r.value
            /\ last' = [NoCall EXCEPT !.op = "abs", !.x = d,
                                      !.panic = r.panic,
                                      !.out = d']
    /\ UNCHANGED codec

\* d *= k
MulInt ==
    /\ Idle
    /\ \E k \in IntOperands :
        /\ d' = mul_int(d, k)
        /\ last' = [NoCall EXCEPT !.op = "mul_int", !.x = d, !.k = k,
                                  !.out = d']
    /\ UNCHANGED codec

\* d = k * d
IntMul ==
    /\ Idle
    /\ \E k \in IntOperands :
        /\ d' = int_mul(k, d)
        /\ last' = [NoCall EXCEPT !.op = "int_mul", !.x = d, !.k = k,
                                  !.out = d']
    /\ UNCHANGED codec

\* d /= k; a panic leaves nothing assigned
DivInt ==
    /\ Idle
    /\ \E k \in IntOperands :
        LET r == div_int(d, k)
        IN  /\ d' = IF r.panic THEN d ELSE r.value
            /\ last' = [NoCall EXCEPT !.op = "div_int", !.x = d, !.k = k,
                                      !.panic = r.panic,
                                      !.out = d']
    /\ UNCHANGED codec

\* d.cmp(&y) and d == y
Cmp ==
    /\ Idle
    /\ \E y \in Durations :
        /\ last' = [NoCall EXCEPT !.op = "cmp", !.x = d, !.y = y,
                                  !.ord = cmp(d, y), !.ok = eq(d, y)]
        /\ UNCHANGED d
    /\ UNCHANGED codec

\* StdDuration::try_from(d)
TryIntoStd ==
    /\ Idle
    /\ LET r == try_into_std(d)
       IN  last' = [NoCall EXCEPT !.op = "try_into_std", !.x = d, !.ok = r.ok,
                                  !.panic = r.panic, !.std = r.value]
    /\ UNCHANGED d
    /\ UNCHANGED codec

\* d = Duration::try_from(g)?: an Err leaves nothing assigned; g is any
\* foreign duration, or the one StdDuration::try_from(d) has just returned
TryFromStd ==
    /\ Idle \/ (last.op = "try_into_std" /\ last.ok /\ ~last.panic)
    /\ \E g \in IF Idle THEN StdDurations ELSE {last.std} :
        LET r == try_from_std(g)
        IN  /\ d' = IF r.ok THEN r.value ELSE d
            /\ last' = [NoCall EXCEPT !.op = "try_from_std", !.x = d, !.g = g,
                                      !.ok = r.ok,
                                      !.out = d']
    /\ UNCHANGED codec

\* the counts tried on weeks, days, hours and minutes
UnitCounts == (-MaxCount)..MaxCount

\* the counts tried on the sub-second constructors: two seconds and a bit
\* more, of either sign
SubCounts == (-2 * NanosPerSec - 1)..(2 * NanosPerSec + 1)

\* the record of a constructor call that may panic
Built(op, c, r, held) ==
    [NoCall EXCEPT !.op = op, !.k = c, !.panic = r.panic,
                   !.out = IF r.panic THEN held ELSE r.value]

\* d = Duration::weeks(c), in a build with or without overflow checks
Weeks ==
    /\ Idle
    /\ \E c \in UnitCounts, overflow_checks \in BOOLEAN :
        /\ last' = Built("weeks", c, weeks(c, overflow_checks), d)
        /\ d' = last'.out
    /\ UNCHANGED codec

\* d = Duration::days(c)
Days ==
    /\ Idle
    /\ \E c \in UnitCounts, overflow_checks \in BOOLEAN :
        /\ last' = Built("days", c, days(c, overflow_checks), d)
        /\ d' = last'.out
    /\ UNCHANGED codec

\* d = Duration::hours(c)
Hours ==
    /\ Idle
    /\ \E c \in UnitCounts, overflow_checks \in BOOLEAN :
        /\ last' = Built("hours", c, hours(c, overflow_checks), d)
        /\ d' = last'.out
    /\ UNCHANGED codec

\* d = Duration::minutes(c)
Minutes ==
    /\ Idle
    /\ \E c \in UnitCounts, overflow_checks \in BOOLEAN :
        /\ last' = Built("minutes", c, minutes(c, overflow_checks), d)
        /\ d' = last'.out
    /\ UNCHANGED codec

\* d = Duration::milliseconds(c)
Milliseconds ==
    /\ Idle
    /\ \E c \in SubCounts :
        /\ d' = milliseconds(c)
        /\ last' = [NoCall EXCEPT !.op = "milliseconds", !.k = c, !.out = d']
    /\ UNCHANGED codec

\* d = Duration::microseconds(c)
Microseconds ==
    /\ Idle
    /\ \E c \in SubCounts :
        /\ d' = microseconds(c)
        /\ last' = [NoCall EXCEPT !.op = "microseconds", !.k = c, !.out = d']
    /\ UNCHANGED codec

\* d = Duration::nanoseconds(c)
Nanoseconds ==
    /\ Idle
    /\ \E c \in SubCounts :
        /\ d' = nanoseconds(c)
        /\ last' = [NoCall EXCEPT !.op = "nanoseconds", !.k = c, !.out = d']
    /\ UNCHANGED codec

\* d.is_zero()
IsZero ==
    /\ Idle
    /\ last' = [NoCall EXCEPT !.op = "is_zero", !.x = d, !.ok = is_zero(d)]
    /\ UNCHANGED d
    /\ UNCHANGED codec

\* d.is_negative()
IsNegative ==
    /\ Idle
    /\ last' = [NoCall EXCEPT !.op = "is_negative", !.x = d,
                              !.ok = is_negative(d)]
    /\ UNCHANGED d
    /\ UNCHANGED codec

\* d.is_positive()
IsPositive ==
    /\ Idle
    /\ last' = [NoCall EXCEPT !.op = "is_positive", !.x = d,
                              !.ok = is_positive(d)]
    /\ UNCHANGED d
    /\ UNCHANGED codec

\* the whole_<unit> accessors
Units ==
    {"whole_weeks", "whole_days", "whole_hours", "whole_minutes",
     "whole_seconds", "whole_milliseconds", "whole_microseconds",
     "whole_nanoseconds"}

whole(unit, self) ==
    CASE unit = "whole_weeks" -> whole_weeks(self)
      [] unit = "whole_days" -> whole_days(self)
      [] unit = "whole_hours" -> whole_hours(self)
      [] unit = "whole_minutes" -> whole_minutes(self)
      [] unit = "whole_seconds" -> whole_seconds(self)
      [] unit = "whole_milliseconds" -> whole_milliseconds(self)
      [] unit = "whole_microseconds" -> whole_microseconds(self)
      [] unit = "whole_nanoseconds" -> whole_nanoseconds(self)

\* d.whole_<unit>()
Whole ==
    /\ Idle
    /\ \E unit \in Units :
        last' = [NoCall EXCEPT !.op = unit, !.x = d, !.k = whole(unit, d)]
    /\ UNCHANGED d
    /\ UNCHANGED codec

\* f -= d on a foreign duration f the caller holds next to d
StdSubAssign ==
    /\ Idle
    /\ \E f \in StdDurations :
        LET r == std_sub_assign(f, d)
        IN  last' = [NoCall EXCEPT !.op = "std_sub_assign", !.x = d, !.g = f,
                                   !.std = r.value, !.panic = r.panic]
    /\ UNCHANGED d
    /\ UNCHANGED codec

\* d.partial_cmp(&f) and d == f
PartialCmpStd ==
    /\ Idle
    /\ \E f \in StdDurations :
        last' = [NoCall EXCEPT !.op = "partial_cmp_std", !.x = d, !.g = f,
                               !.ord = partial_cmp_std(d, f),
                               !.ok = eq_std(d, f)]
    /\ UNCHANGED d
    /\ UNCHANGED codec

\* f.partial_cmp(&d) and f == d
StdPartialCmp ==
    /\ Idle
    /\ \E f \in StdDurations :
        last' = [NoCall EXCEPT !.op = "std_partial_cmp", !.x = d, !.g = f,
                               !.ord = std_partial_cmp(f, d),
                               !.ok = std_eq(f, d)]
    /\ UNCHANGED d
    /\ UNCHANGED codec

\* the longest text that follows an offset token in the input
MaxRest == 1

\* the characters tried at the sign's place, at the four digits' places and
\* after the token
FirstChars == {"+", "-", "0", "Z"}
FieldChars == {Digits[i] : i \in 1..Len(Digits)} \cup {"Z"}
RestChars == {"0"}

Rests == UNION {[1..n -> RestChars] : n \in 0..MaxRest}

\* the sign alone or nothing, and the inputs that stop inside the digits
CutShort(token) == {SubSeq(token, 1, n) : n \in 0..(Len(token) - 1)}

\* the parser is handed a cursor and an accumulator whose offset field is
\* empty or already set
InitCodec ==
    /\ d = zero
    /\ last = NoCall
    /\ \E c1 \in FirstChars, c2 \in FieldChars, c3 \in FieldChars,
          c4 \in FieldChars, c5 \in FieldChars :
           \/ \E rest \in Rests : cursor = <<c1, c2, c3, c4, c5>> \o rest
           \/ c5 = "Z" /\ cursor \in CutShort(<<c1, c2, c3, c4, c5>>)
    /\ items \in {[offset |-> None], [offset |-> Some(Offset(-1))]}
    /\ text = <<>>
    /\ ret = NoRet

\* parse_z(&mut items, &mut cursor); the cursor is on the input, or on the
\* text fmt_z has just written
ParseZ ==
    /\ ret.op = "none" \/ (ret.op = "fmt_z" /\ ret.result = "none")
    /\ LET input == IF ret.op = "none" THEN cursor ELSE text
           r == parse_z(items, input)
       IN  /\ cursor' = r.s
           /\ items' = r.items
           /\ ret' = [NoRet EXCEPT !.op = "parse_z", !.result = r.result,
                                   !.x = input, !.prev = items,
                                   !.overflow = r.overflow,
                                   !.offset = ret.offset]
    /\ UNCHANGED <<d, last, text>>

\* fmt_z(f, offset) of the offset just parsed, or of any offset when nothing
\* is to be parsed
FmtZ ==
    /\ ret.op # "fmt_z"
    /\ \E offset \in IF ret.op = "parse_z"
                     THEN IF ret.result = "Ok" /\ text = <<>>
                          THEN {items.offset.value}
                          ELSE {}
                     ELSE IF cursor = <<>> /\ ~items.offset.some
                          THEN UtcOffsets
                          ELSE {} :
        /\ text' = text \o fmt_z(offset)
        /\ ret' = [ret EXCEPT !.op = "fmt_z", !.offset = offset]
    /\ UNCHANGED <<d, last, cursor, items>>

Next ==
    \/ Continue
    \/ New
    \/ Seconds
    \/ Add
    \/ Sub
    \/ AddStd
    \/ SubStd
    \/ StdAdd
    \/ StdSub
    \/ Neg
    \/ Abs
    \/ MulInt
    \/ IntMul
    \/ DivInt
    \/ Cmp
    \/ TryIntoStd
    \/ TryFromStd
    \/ Whole
    \/ IsZero
    \/ IsNegative
    \/ IsPositive

Spec == Init /\ [][Next]_vars

\* the caller that builds a Duration and uses it against foreign durations
NextStd ==
    \/ Continue
    \/ New
    \/ StdSubAssign
    \/ PartialCmpStd
    \/ StdPartialCmp

SpecStd == Init /\ [][NextStd]_vars

\* the caller that builds Durations with the unit constructors
NextUnits ==
    \/ Continue
    \/ Weeks
    \/ Days
    \/ Hours
    \/ Minutes
    \/ Milliseconds
    \/ Microseconds
    \/ Nanoseconds

SpecUnits == Init /\ [][NextUnits]_vars

\* the offset codec
NextCodec ==
    \/ ParseZ
    \/ FmtZ

SpecCodec == InitCodec /\ [][NextCodec]_vars

---------------------------------------------------------------------------
(* Invariants of the representation. *)

\* I1: -10^9 < nanoseconds < 10^9
I1(x) == -NanosPerSec < x.nanoseconds /\ x.nanoseconds < NanosPerSec

\* I2: when seconds # 0, nanoseconds is zero or has the sign of seconds
I2(x) ==
    /\ x.seconds > 0 => x.nanoseconds >= 0
    /\ x.seconds < 0 => x.nanoseconds <= 0

Valid(x) == I1(x) /\ I2(x)

\* the exact total of nanoseconds of a Duration and of a foreign duration
Total(x) == x.seconds * NanosPerSec + x.nanoseconds
StdTotal(g) == g.secs * NanosPerSec + g.nanos

MaxTotal == Total(max_value)
MinTotal == Total(min_value)

---------------------------------------------------------------------------
(* Duration::new. *)

\* the remainder of n by 10^9 that keeps the sign of n, and the whole seconds
\* taken out of n
RemOf(n) ==
    CHOOSE r \in (-(NanosPerSec - 1))..(NanosPerSec - 1) :
        /\ (n - r) % NanosPerSec = 0
        /\ r * n >= 0
QuotOf(n) == (n - RemOf(n)) \div NanosPerSec

\* C1: for every s and every n with |n| < 2 * 10^9, Duration::new(s, n)
\* satisfies I1 and I2.
C1_NewKeepsInvariants ==
    (last.op = "new" /\ AbsInt(last.n) < 2 * NanosPerSec)
        => (I1(last.out) /\ I2(last.out))

\* C2: Duration::new(s, n) never panics; when s + trunc(n / 10^9) fits in i64
\* the result has these seconds and n rem 10^9 nanoseconds, and is what new
\* returns for the folded arguments; when the sum overflows upward the result
\* is max_value, downward min_value; new(1, 2 * 10^9) is seconds(3).
C2_NewFolds ==
    last.op = "new" =>
        LET sum == last.s + QuotOf(last.n)
        IN  /\ ~last.panic
            /\ sum \in I64 =>
                   /\ last.out = Dur(sum, RemOf(last.n))
                   /\ last.out = new(sum, RemOf(last.n))
            /\ sum > I64Max => last.out = max_value
            /\ sum < I64Min => last.out = min_value
            /\ (last.s = 1 /\ last.n = 2 * NanosPerSec) => last.out = seconds(3)

C2_Witness ==
    /\ last.op = "new"
    /\ last.s = 1
    /\ last.n = 2 * NanosPerSec
    /\ d = seconds(3)

---------------------------------------------------------------------------
(* Addition and subtraction. *)

AddSubOps == {"add", "sub", "add_std", "sub_std", "std_add", "std_sub"}

\* the exact mathematical result of the last addition or subtraction
ExactAddSub ==
    CASE last.op = "add" -> Total(last.x) + Total(last.y)
      [] last.op = "sub" -> Total(last.x) - Total(last.y)
      [] last.op = "add_std" -> Total(last.x) + StdTotal(last.g)
      [] last.op = "sub_std" -> Total(last.x) - StdTotal(last.g)
      [] last.op = "std_add" -> StdTotal(last.g) + Total(last.x)
      [] last.op = "std_sub" -> StdTotal(last.g) - Total(last.x)

\* C3: for operands satisfying I1-I2, every addition and subtraction returns
\* the Duration whose total of nanoseconds is the exact result clamped to
\* [min_value, max_value]; max_value + p = max_value and min_value - p =
\* min_value for positive p; foreign(u64::MAX, 999_999_999) - min_value =
\* max_value.
C3_AddSubSaturate ==
    (/\ last.op \in AddSubOps
     /\ Valid(last.x)
     /\ last.op \in {"add", "sub"} => Valid(last.y))
        => /\ Valid(last.out)
           /\ Total(last.out) = Clamp(ExactAddSub, MinTotal, MaxTotal)
           /\ (last.op = "add" /\ last.x = max_value /\ Total(last.y) > 0)
                  => last.out = max_value
           /\ (last.op = "sub" /\ last.x = min_value /\ Total(last.y) > 0)
                  => last.out = min_value
           /\ (last.op = "std_sub" /\ last.x = min_value
                   /\ last.g = Std(U64Max, NanosPerSec - 1))
                  => last.out = max_value

C3_Witness ==
    /\ last.op = "std_sub"
    /\ last.x = min_value
    /\ last.g = Std(U64Max, NanosPerSec - 1)
    /\ d = max_value

\* the sum of the last addition hit no saturation boundary
SumInRange ==
    /\ Total(last.x) + Total(last.y) >= MinTotal
    /\ Total(last.x) + Total(last.y) <= MaxTotal

\* C4: for a and b satisfying I1-I2 whose exact sum lies within
\* [min_value, max_value], (a + b) - b = a.
C4_AddThenSub ==
    [][(/\ last.op = "add"
        /\ last'.op = "sub"
        /\ Valid(last.x)
        /\ Valid(last.y)
        /\ SumInRange)
           => d' = last.x]_vars

\* a subtraction that took back what an addition had carried across the
\* seconds
C4_Witness ==
    /\ last.op = "sub"
    /\ Valid(d)
    /\ Valid(last.y)
    /\ last.x = add(d, last.y)
    /\ Total(d) + Total(last.y) = Total(last.x)
    /\ d.nanoseconds > 0
    /\ last.y.nanoseconds > 0
    /\ last.x.seconds = d.seconds + last.y.seconds + 1

---------------------------------------------------------------------------
(* Ordering. *)

\* C5: for all Durations a and b obtainable through the public constructors
\* and operators, a < b iff a's total of nanoseconds is less than b's, and
\* a == b iff the totals are equal.
C5_OrderIsSignedMagnitude ==
    last.op = "cmp" =>
        /\ (last.ord = "Less") = (Total(last.x) < Total(last.y))
        /\ last.ok = (Total(last.x) = Total(last.y))

---------------------------------------------------------------------------
(* abs and negation. *)

\* C6: abs(x) = abs(-x) for every Duration x other than min_value, and
\* abs(min_value) returns max_value without overflowing or panicking.
C6_AbsSaturates ==
    last.op = "abs" =>
        /\ last.x = min_value => (~last.panic /\ last.out = max_value)
        /\ last.x # min_value =>
               \A overflow_checks \in BOOLEAN :
                   abs(last.x, overflow_checks)
                       = abs(neg(last.x), overflow_checks)

\* C7: -(max_value) = min_value.
C7_MinIsNegatedMax ==
    (last.op = "neg" /\ last.x = max_value) => last.out = min_value

\* C7, amended: max_value is (i64::MAX, 999_999_999), min_value is
\* (i64::MIN, -999_999_999), and -(max_value) is one second above min_value.
C7_NegatedMaxIsMinPlusOneSecond ==
    /\ max_value = Dur(I64Max, NanosPerSec - 1)
    /\ (last.op = "neg" /\ last.x = max_value) =>
           /\ last.out = Dur(-I64Max, -(NanosPerSec - 1))
           /\ last.out = Dur(min_value.seconds + 1, min_value.nanoseconds)
           /\ Total(last.out) = Total(min_value) + NanosPerSec

C7_Witness ==
    /\ last.op = "neg"
    /\ last.x = max_value
    /\ d # min_value

---------------------------------------------------------------------------
(* Scaling by an integer. *)

\* q is a / b truncated toward zero
IsTruncatedQuotient(q, a, b) ==
    /\ AbsInt(q) * AbsInt(b) <= AbsInt(a)
    /\ AbsInt(a) < (AbsInt(q) + 1) * AbsInt(b)
    /\ q # 0 => ((q > 0) = ((a > 0) = (b > 0)))

\* C8: for d satisfying I1-I2 and every integer k, d * k and k * d are the
\* Duration whose total is d's total times k clamped to
\* [min_value, max_value]; for k # 0, d / k is the Duration whose total is
\* d's total divided by k truncated toward zero; one second / 2 is half a
\* second and one second / -2 is minus half a second.
C8_ScaleByInteger ==
    /\ (last.op \in {"mul_int", "int_mul"} /\ Valid(last.x)) =>
           /\ Valid(last.out)
           /\ Total(last.out)
                  = Clamp(Total(last.x) * last.k, MinTotal, MaxTotal)
    /\ (last.op = "div_int" /\ Valid(last.x) /\ last.k # 0) =>
           /\ ~last.panic
           /\ Valid(last.out)
           /\ IsTruncatedQuotient(Total(last.out), Total(last.x), last.k)
           /\ (last.x = seconds(1) /\ last.k = 2)
                  => last.out = Dur(0, NanosPerSec \div 2)
           /\ (last.x = seconds(1) /\ last.k = -2)
                  => last.out = Dur(0, -(NanosPerSec \div 2))

\* a / b truncated toward zero is greater than hi (hi >= 0)
QuotientAbove(a, b, hi) ==
    /\ a # 0
    /\ (a > 0) = (b > 0)
    /\ AbsInt(a) >= (hi + 1) * AbsInt(b)

\* a / b truncated toward zero is less than lo (lo <= 0)
QuotientBelow(a, b, lo) ==
    /\ a # 0
    /\ (a > 0) # (b > 0)
    /\ AbsInt(a) >= (AbsInt(lo) + 1) * AbsInt(b)

\* C8, amended: as C8, but the quotient of d / k is clamped to
\* [min_value, max_value] like the product; the clamp acts only for k = -1
\* and d below -max_value: min_value / -1 is max_value.
C8_ScaleByIntegerClamped ==
    /\ (last.op \in {"mul_int", "int_mul"} /\ Valid(last.x)) =>
           /\ Valid(last.out)
           /\ Total(last.out)
                  = Clamp(Total(last.x) * last.k, MinTotal, MaxTotal)
    /\ (last.op = "div_int" /\ Valid(last.x) /\ last.k # 0) =>
           /\ ~last.panic
           /\ Valid(last.out)
           /\ QuotientAbove(Total(last.x), last.k, MaxTotal)
                  => (last.k = -1 /\ Total(last.x) < -MaxTotal)
           /\ IF QuotientAbove(Total(last.x), last.k, MaxTotal)
              THEN last.out = max_value
              ELSE IF QuotientBelow(Total(last.x), last.k, MinTotal)
              THEN last.out = min_value
              ELSE IsTruncatedQuotient(Total(last.out), Total(last.x), last.k)
           /\ (last.x = seconds(1) /\ last.k = 2)
                  => last.out = Dur(0, NanosPerSec \div 2)
           /\ (last.x = seconds(1) /\ last.k = -2)
                  => last.out = Dur(0, -(NanosPerSec \div 2))

C8_Witness ==
    /\ last.op = "div_int"
    /\ last.x = min_value
    /\ last.k = -1
    /\ ~last.panic
    /\ d = max_value

---------------------------------------------------------------------------
(* Conversions. *)

\* C9: converting a Duration d to the foreign duration returns Err, without
\* panicking, exactly when seconds < 0 or nanoseconds < 0; otherwise Ok with
\* the same seconds and nanoseconds.
C9_TryIntoStd ==
    last.op = "try_into_std" =>
        /\ ~last.panic
        /\ (~last.ok) = (last.x.seconds < 0 \/ last.x.nanoseconds < 0)
        /\ last.ok => last.std = Std(last.x.seconds, last.x.nanoseconds)

C9_Witness ==
    /\ last.op = "try_into_std"
    /\ last.x = seconds(-1)
    /\ ~last.ok

\* C10: converting a foreign duration f to Duration returns Err exactly when
\* f's seconds exceed i64::MAX; otherwise Ok with f's seconds and sub-second
\* nanoseconds; it never panics and returns no clamped or wrapped value.
C10_TryFromStd ==
    last.op = "try_from_std" =>
        /\ ~last.panic
        /\ (~last.ok) = (last.g.secs > I64Max)
        /\ last.ok => last.out = Dur(last.g.secs, last.g.nanos)
        /\ ~last.ok => d = last.x

C10_Witness ==
    /\ last.op = "try_from_std"
    /\ last.g = Std(I64Max + 1, NanosPerSec - 1)
    /\ ~last.ok

---------------------------------------------------------------------------
(* Round trip through the foreign duration. *)

\* seconds >= 0 and 0 <= nanoseconds < 10^9
NonNegative(x) ==
    /\ x.seconds >= 0
    /\ 0 <= x.nanoseconds
    /\ x.nanoseconds < NanosPerSec

\* C11: for every Duration d with seconds >= 0 and 0 <= nanoseconds < 10^9,
\* converting d to the foreign duration succeeds, and converting that result
\* back succeeds and yields a value equal to d.
C11_RoundTrip ==
    [][/\ (last'.op = "try_into_std" /\ NonNegative(last'.x)) =>
              (last'.ok /\ ~last'.panic)
       /\ (last.op = "try_into_std" /\ last'.op = "try_from_std"
              /\ NonNegative(last.x)) =>
              /\ last'.g = last.std
              /\ last'.ok
              /\ d' = last.x
              /\ eq(d', last.x)]_vars

C11_Witness ==
    /\ last.op = "try_from_std"
    /\ last.ok
    /\ last.x.seconds > 0
    /\ last.x.nanoseconds > 0
    /\ last.g = Std(last.x.seconds, last.x.nanoseconds)
    /\ d = last.x

---------------------------------------------------------------------------
(* In-place subtraction from a foreign duration. *)

\* the mathematical result of f -= d, in nanoseconds
Difference == StdTotal(last.g) - Total(last.x)

\* the largest total a foreign duration holds
StdMaxTotal == U64Max * NanosPerSec + (NanosPerSec - 1)

\* C12: `foreign -= duration` panics exactly when the mathematical result
\* foreign - duration is negative; it never clamps the foreign value to zero,
\* and it completes without panicking whenever the result is non-negative.
C12_SubAssignPanics ==
    last.op = "std_sub_assign" =>
        /\ last.panic <=> Difference < 0
        /\ last.panic => last.std = last.g
        /\ (last.std = Std(0, 0) /\ ~last.panic) => Difference = 0

C12_Witness ==
    /\ last.op = "std_sub_assign"
    /\ last.panic
    /\ last.g # Std(0, 0)
    /\ Difference < 0

\* C13: for every foreign f (also with seconds above i64::MAX) and every d
\* satisfying I1-I2 such that f - d is non-negative and representable in the
\* foreign type, after `f -= d` the value of f is that exact difference.
C13_SubAssignExact ==
    (/\ last.op = "std_sub_assign"
     /\ Valid(last.x)
     /\ Difference >= 0
     /\ Difference <= StdMaxTotal) =>
        /\ ~last.panic
        /\ StdTotal(last.std) = Difference

---------------------------------------------------------------------------
(* Comparison with a foreign duration. *)

\* the numeric ordering of two totals
TotalOrder(a, b) == IF a < b THEN "Less" ELSE IF a > b THEN "Greater" ELSE "Equal"

\* C14: a foreign duration f with more than i64::MAX whole seconds is the
\* greater operand for every Duration d: d.partial_cmp(&f) is Some(Less),
\* f.partial_cmp(&d) is Some(Greater), and d == f is false.
C14_HugeForeignIsGreater ==
    last.g.secs > I64Max =>
        /\ last.op = "partial_cmp_std" => (last.ord = "Less" /\ ~last.ok)
        /\ last.op = "std_partial_cmp" => (last.ord = "Greater" /\ ~last.ok)

\* C15: for d satisfying I1-I2 and a foreign f with seconds <= i64::MAX,
\* d == f and f == d hold iff the totals are equal, that is iff converting f
\* succeeds and equals d; d.partial_cmp(&f) is the numeric ordering of the
\* totals, f.partial_cmp(&d) is its reverse; Some(Equal) iff == holds.
C15_ForeignOrderIsNumeric ==
    (Valid(last.x) /\ last.g.secs <= I64Max) =>
        /\ last.op \in {"partial_cmp_std", "std_partial_cmp"} =>
               /\ last.ok <=> Total(last.x) = StdTotal(last.g)
               /\ last.ok <=> (/\ try_from_std(last.g).ok
                               /\ try_from_std(last.g).value = last.x)
               /\ last.ok <=> last.ord = "Equal"
        /\ last.op = "partial_cmp_std" =>
               last.ord = TotalOrder(Total(last.x), StdTotal(last.g))
        /\ last.op = "std_partial_cmp" =>
               last.ord = TotalOrder(StdTotal(last.g), Total(last.x))

C15_Witness ==
    /\ last.op = "std_partial_cmp"
    /\ Valid(last.x)
    /\ last.x.seconds = last.g.secs
    /\ last.x.nanoseconds > last.g.nanos
    /\ last.ord = "Less"

---------------------------------------------------------------------------
(* The offset codec. *)

\* the two decimal digits of n, for 0 <= n <= 99
TwoDigits(n) == <<Digits[(n \div 10) + 1], Digits[(n % 10) + 1]>>

\* C16: for every UtcOffset the constructor accepts, fmt_z writes exactly 5
\* characters: '+' for a non-negative offset and '-' for a negative one,
\* abs(whole_hours) as two decimal digits, then
\* abs(whole_minutes - 60 * whole_hours) as two decimal digits in 00..59.
C16_FormatIsFiveChars ==
    ret.op = "fmt_z" =>
        LET offset_ == as_duration(ret.offset)
            hh == AbsInt(whole_hours(offset_))
            mm == AbsInt(whole_minutes(offset_) - 60 * whole_hours(offset_))
        IN  /\ UtcOffset_minutes(ret.offset.minutes).ok
            /\ Len(text) = 5
            /\ text[1] = IF ret.offset.minutes >= 0 THEN "+" ELSE "-"
            /\ hh <= 99
            /\ hh = AbsInt(ret.offset.minutes) \div 60
            /\ SubSeq(text, 2, 3) = TwoDigits(hh)
            /\ mm <= 59
            /\ mm = AbsInt(ret.offset.minutes) % 60
            /\ SubSeq(text, 4, 5) = TwoDigits(mm)

C16_Witness ==
    /\ ret.op = "fmt_z"
    /\ ret.result = "none"
    /\ ret.offset = Offset(-330)
    /\ text = <<"-", "0", "5", "3", "0">>

\* the token at the head of the input of the last parse
TokenOf(x) == SubSeq(x, 1, 5)

\* C17: for every valid 5-character token x (a sign, then HH and MM as two
\* decimal digits each) that parse accepts, format(parse(x)) = x character
\* for character.
C17_RoundTrip ==
    (ret.op = "fmt_z" /\ ret.result = "Ok") => text = TokenOf(ret.x)

\* the conditions of rejection, read off the input
NoSign(x) == Len(x) = 0 \/ x[1] \notin {"+", "-"}
NoHours(x) == ~(Len(x) >= 3 /\ is_ascii_digit(x[2]) /\ is_ascii_digit(x[3]))
NoMinutes(x) == ~(Len(x) >= 5 /\ is_ascii_digit(x[4]) /\ is_ascii_digit(x[5]))

\* sign * (HH * 60 + MM) of an input that starts with a sign and four digits
SignedMinutes(x) ==
    (IF x[1] = "-" THEN -1 ELSE 1)
        * ((10 * digit_value(x[2]) + digit_value(x[3])) * 60
               + 10 * digit_value(x[4]) + digit_value(x[5]))

\* C18: parse_z returns InvalidOffset, and leaves the accumulator's offset
\* field as it was, for every input that is empty or does not start with '+'
\* or '-', whose two characters after the sign are not both digits, whose
\* next two characters are not both digits, or whose signed minute count the
\* offset constructor rejects; no other error kind is returned.
C18_ParseRejects ==
    ret.op = "parse_z" =>
        /\ ret.result \in {"Ok", "InvalidOffset"}
        /\ (\/ NoSign(ret.x)
            \/ NoHours(ret.x)
            \/ NoMinutes(ret.x)
            \/ ~UtcOffset_minutes(SignedMinutes(ret.x)).ok) =>
               /\ ret.result = "InvalidOffset"
               /\ items = ret.prev

C18_Witness ==
    /\ ret.op = "parse_z"
    /\ ret.x = <<"0", "5", "3", "0">>
    /\ ret.result = "InvalidOffset"
    /\ items.offset = Some(Offset(-1))

\* C19: when the input starts with a sign and four digits HHMM and the offset
\* constructor accepts sign * (HH * 60 + MM), parse_z returns Ok, sets the
\* offset field to the offset of exactly that count, and advances the cursor
\* by exactly 5 characters; the i16 computation never overflows.
C19_ParseAccepts ==
    (/\ ret.op = "parse_z"
     /\ ~NoSign(ret.x)
     /\ ~NoHours(ret.x)
     /\ ~NoMinutes(ret.x)) =>
        /\ ~ret.overflow
        /\ SignedMinutes(ret.x) \in I16Min..I16Max
        /\ UtcOffset_minutes(SignedMinutes(ret.x)).ok =>
               /\ ret.result = "Ok"
               /\ items.offset = Some(Offset(SignedMinutes(ret.x)))
               /\ cursor = Skip(ret.x, 5)
               /\ ret.x = TokenOf(ret.x) \o cursor

C19_Witness ==
    /\ ret.op = "parse_z"
    /\ ret.x = <<"-", "0", "5", "3", "0", "0">>
    /\ ret.result = "Ok"
    /\ items.offset = Some(Offset(-330))
    /\ cursor = <<"0">>

---------------------------------------------------------------------------
(* The whole_<unit> accessors. *)

\* the length of a unit in nanoseconds
UnitNanos(unit) ==
    CASE unit = "whole_weeks" -> SECONDS_PER_WEEK * NanosPerSec
      [] unit = "whole_days" -> SECONDS_PER_DAY * NanosPerSec
      [] unit = "whole_hours" -> SECONDS_PER_HOUR * NanosPerSec
      [] unit = "whole_minutes" -> SECONDS_PER_MINUTE * NanosPerSec
      [] unit = "whole_seconds" -> NanosPerSec
      [] unit = "whole_milliseconds" -> Million
      [] unit = "whole_microseconds" -> Thousand
      [] unit = "whole_nanoseconds" -> 1

\* C20: for every Duration d obtainable through the public API (Duration::new
\* included) and every unit from weeks to nanoseconds, whole_<unit>(d) is d's
\* total nanosecond count divided by the unit's length in nanoseconds,
\* truncated toward zero.
C20_WholeUnitsTruncate ==
    last.op \in Units =>
        IsTruncatedQuotient(last.k, Total(last.x), UnitNanos(last.op))

---------------------------------------------------------------------------
(* The unit constructors. *)

\* the length in seconds of the unit a constructor counts
UnitSeconds(op) ==
    CASE op = "weeks" -> 7 * 24 * 60 * 60
      [] op = "days" -> 24 * 60 * 60
      [] op = "hours" -> 60 * 60
      [] op = "minutes" -> 60

\* C21: for every count c, milliseconds(c), microseconds(c) and
\* nanoseconds(c) return, without overflow or panic, a Duration satisfying
\* I1-I2 whose total is exactly c * 10^6, c * 10^3 and c nanoseconds, so that
\* milliseconds(c) = microseconds(c * 1000) and
\* microseconds(c) = nanoseconds(c * 1000); weeks(c), days(c), hours(c) and
\* minutes(c) equal seconds(c * scale) whenever c * scale fits in i64.
C21_UnitConstructors ==
    /\ last.op \in {"milliseconds", "microseconds", "nanoseconds"} =>
           /\ ~last.panic
           /\ d = last.out
           /\ Valid(last.out)
    /\ last.op = "milliseconds" =>
           /\ Total(last.out) = last.k * Million
           /\ last.out = microseconds(last.k * Thousand)
    /\ last.op = "microseconds" =>
           /\ Total(last.out) = last.k * Thousand
           /\ last.out = nanoseconds(last.k * Thousand)
    /\ last.op = "nanoseconds" => Total(last.out) = last.k
    /\ (/\ last.op \in {"weeks", "days", "hours", "minutes"}
        /\ last.k * UnitSeconds(last.op) \in CountMin..CountMax) =>
           /\ ~last.panic
           /\ d = last.out
           /\ last.out = seconds(last.k * UnitSeconds(last.op))

C21_Witness ==
    /\ last.op = "weeks"
    /\ last.k = -2
    /\ ~last.panic
    /\ d = Dur(-2 * 7 * 24 * 60 * 60, 0)

---------------------------------------------------------------------------
(* Sequences of arithmetic. *)

\* Duration +/- Duration, Duration +/- foreign, foreign +/- Duration,
\* negation, and multiplication and division by an integer
ArithOps ==
    {"add", "sub", "add_std", "sub_std", "std_add", "std_sub", "neg",
     "mul_int", "int_mul", "div_int"}

\* C22: starting from values built by the unit constructors and applying any
\* finite sequence of additions, subtractions (with Durations and foreign
\* durations on either side), negations, and multiplications or divisions
\* by a non-zero integer, every resulting Duration satisfies I1 and I2 and
\* lies between min_value and max_value.
C22_ArithmeticKeepsInvariants ==
    (last.op \in ArithOps /\ ~last.panic) =>
        /\ d = last.out
        /\ I1(d)
        /\ I2(d)
        /\ d.seconds \in I64
        /\ Total(min_value) <= Total(d)
        /\ Total(d) <= Total(max_value)
        /\ cmp(min_value, d) # "Greater"
        /\ cmp(d, max_value) # "Greater"

C22_Witness ==
    /\ last.op = "div_int"
    /\ Valid(last.x)
    /\ last.x.seconds < 0
    /\ last.k < -1
    /\ d.seconds > 0
    /\ d.nanoseconds > 0

---------------------------------------------------------------------------
(* The sign predicates. *)

\* how many of the three predicates hold of x
SignCount(x) ==
    (IF is_zero(x) THEN 1 ELSE 0) + (IF is_negative(x) THEN 1 ELSE 0)
        + (IF is_positive(x) THEN 1 ELSE 0)

\* C23: for every Duration d obtainable through the public API
\* (Duration::new included) exactly one of is_zero(d), is_negative(d) and
\* is_positive(d) holds, is_zero(d) holds iff both fields are zero, and
\* is_negative(d) / is_positive(d) hold iff d.whole_nanoseconds() is
\* < 0 / > 0.
C23_SignTrichotomy ==
    /\ last.op \in {"is_zero", "is_negative", "is_positive"} =>
           SignCount(last.x) = 1
    /\ last.op = "is_zero" =>
           (last.ok <=> (last.x.seconds = 0 /\ last.x.nanoseconds = 0))
    /\ last.op = "is_negative" =>
           (last.ok <=> whole_nanoseconds(last.x) < 0)
    /\ last.op = "is_positive" =>
           (last.ok <=> whole_nanoseconds(last.x) > 0)

---------------------------------------------------------------------------
(* The cursor after a failed parse, and the codec's other round trip. *)

\* C24: parse_z does not roll the cursor back on a late failure: with the
\* sign consumed and the hour digits invalid the cursor stays advanced by 1,
\* with sign and hours consumed and the minute digits invalid by 3, with all
\* five characters consumed and the value rejected by the offset constructor
\* by 5; only a failure at the sign leaves the cursor where it was.
C24_NoRollback ==
    (ret.op = "parse_z" /\ ret.result = "InvalidOffset") =>
        /\ NoSign(ret.x) => cursor = ret.x
        /\ (~NoSign(ret.x) /\ NoHours(ret.x)) => cursor = Skip(ret.x, 1)
        /\ (~NoSign(ret.x) /\ ~NoHours(ret.x) /\ NoMinutes(ret.x)) =>
               cursor = Skip(ret.x, 3)
        /\ (~NoSign(ret.x) /\ ~NoHours(ret.x) /\ ~NoMinutes(ret.x)) =>
               cursor = Skip(ret.x, 5)
        /\ cursor = ret.x => NoSign(ret.x)

C24_Witness ==
    /\ ret.op = "parse_z"
    /\ ret.result = "InvalidOffset"
    /\ ret.x = <<"+", "2", "4", "0", "0", "0">>
    /\ cursor = <<"0">>

\* C25: for every UtcOffset o the offset constructor accepts (negative
\* offsets of less than one hour included), parsing the token fmt_z writes
\* for o succeeds, consumes all 5 characters, and sets the accumulator's
\* offset field to an offset equal to o.
C25_ParseOfFormat ==
    (ret.op = "parse_z" /\ text # <<>>) =>
        /\ ret.x = text
        /\ text = fmt_z(ret.offset)
        /\ Len(ret.x) = 5
        /\ ret.result = "Ok"
        /\ cursor = <<>>
        /\ items.offset = Some(ret.offset)

C25_Witness ==
    /\ ret.op = "parse_z"
    /\ ret.offset = Offset(-30)
    /\ ret.x = <<"-", "0", "0", "3", "0">>
    /\ ret.result = "Ok"
    /\ items.offset = Some(Offset(-30))

---------------------------------------------------------------------------
(* Division by zero. *)

\* C26: dividing a Duration by an integer zero (d / 0 or d /= 0, for any d,
\* zero included) aborts with a panic: it returns no Duration, does not
\* saturate to max_value or min_value, and in the assignment form leaves no
\* new value stored.
C26_DivideByZeroPanics ==
    (last.op = "div_int" /\ last.k = 0) =>
        /\ last.panic
        /\ div_int(last.x, 0).panic
        /\ d = last.x
        /\ last.out = last.x

C26_Witness ==
    /\ last.op = "div_int"
    /\ last.k = 0
    /\ last.x = zero
    /\ last.panic
    /\ d = zero

===========================================================================
